---- MODULE Spec2Model ----
(***************************************************************************)
(* Model of datachain/lib/dc/datasets.py: the three entry points           *)
(* read_dataset, datasets and delete_dataset, run against a local catalog  *)
(* and a remote registry (Studio).                                         *)
(*                                                                         *)
(* Python values are encoded as follows.                                   *)
(*   - A name-like str is a TLA+ string; the dotted dataset name and the   *)
(*     attribute strings are sequences of tokens in which "." and "=" are  *)
(*     tokens of their own, so that str.split is computed, not assumed.    *)
(*   - A version str is a sequence of one-character strings.               *)
(*   - None (for Optional[str]) is the reserved string None.               *)
(*   - A version argument (Optional[Union[str, int]]) is a tagged record,  *)
(*     see VNone, VInt, VStr.                                              *)
(***************************************************************************)
EXTENDS Integers, Sequences, FiniteSets, TLC

VARIABLES catalog, studio, last

vars == <<catalog, studio, last>>

\* ---------------------------------------------------------------- bounds

\* Number of versions the dataset local.local.cats starts with.
NumVersions == 3

\* Largest integer given as a legacy major version.
MaxMajorArg == 3

\* Longest attrs list given to datasets().
MaxAttrs == 2

\* ------------------------------------------------------- Python values

None == "<None>"

\* Python truthiness of an Optional[str].
Truthy(x) == x /= None /\ x /= ""

\* Python's `a or b` on Optional[str].
Or(a, b) == IF Truthy(a) THEN a ELSE b

VNone == [t |-> "none", n |-> 0, s |-> <<>>]
VInt(i) == [t |-> "int", n |-> i, s |-> <<>>]
VStr(str) == [t |-> "str", n |-> 0, s |-> str]

\* Python truthiness of a version value (None, "" and 0 are falsy).
VTruthy(v) ==
  \/ v.t = "int" /\ v.n /= 0
  \/ v.t = "str" /\ v.s /= <<>>

Digits == <<"0", "1", "2", "3", "4", "5", "6", "7", "8", "9">>

IsDigit(c) == \E i \in 1..Len(Digits) : Digits[i] = c

DigitVal(c) == (CHOOSE i \in 1..Len(Digits) : Digits[i] = c) - 1

RECURSIVE DigitsToNat(_)
DigitsToNat(s) ==
  IF s = <<>> THEN 0
  ELSE DigitsToNat(SubSeq(s, 1, Len(s) - 1)) * 10 + DigitVal(s[Len(s)])

\* int(s) for a str s over the characters 0-9 and ".": the number, or ValueError.
IntOfStr(s) ==
  IF s /= <<>> /\ \A i \in 1..Len(s) : IsDigit(s[i])
  THEN [err |-> "", n |-> DigitsToNat(s)]
  ELSE [err |-> "ValueError", n |-> 0]

\* int(version) for Union[str, int].
IntOf(v) ==
  IF v.t = "int" THEN [err |-> "", n |-> v.n] ELSE IntOfStr(v.s)

\* str.split(sep) on a sequence of tokens: the sequence of the parts.
RECURSIVE Split(_, _)
Split(s, sep) ==
  IF \A i \in 1..Len(s) : s[i] /= sep THEN <<s>>
  ELSE LET k == CHOOSE i \in 1..Len(s) :
                  s[i] = sep /\ \A j \in 1..(i - 1) : s[j] /= sep
       IN <<SubSeq(s, 1, k - 1)>> \o Split(SubSeq(s, k + 1, Len(s)), sep)

\* A part of a split token string as one str: tokens are whole words, so a part
\* between two separators holds one token or none (the empty str).
Word(part) == IF part = <<>> THEN "" ELSE part[1]

\* str(n) for a natural number n.
RECURSIVE StrOfNat(_)
StrOfNat(n) ==
  IF n < 10 THEN <<Digits[n + 1]>>
  ELSE StrOfNat(n \div 10) \o <<Digits[(n % 10) + 1]>>

\* The version string "a.b.c".
Semver(a, b, c) == StrOfNat(a) \o <<".">> \o StrOfNat(b) \o <<".">> \o StrOfNat(c)

\* semver.parse: the three numbers of a stored version string.
Numbers(parts) ==
  <<IntOfStr(parts[1]).n, IntOfStr(parts[2]).n, IntOfStr(parts[3]).n>>

SemverParse(v) == Numbers(Split(v, "."))

\* Order of two version strings by their parsed numbers.
TripleLess(a, b) ==
  \/ a[1] < b[1]
  \/ a[1] = b[1] /\ a[2] < b[2]
  \/ a[1] = b[1] /\ a[2] = b[2] /\ a[3] < b[3]

SemverLess(v, w) == TripleLess(SemverParse(v), SemverParse(w))

\* max() of a non-empty set of version strings.
SemverMax(S) == CHOOSE v \in S : \A w \in S : w = v \/ SemverLess(w, v)

\* ------------------------------------------------- catalog and registry

DefaultNamespace == "local"
DefaultProject == "local"

Cats == <<"local", "local", "cats">>
DevCats == <<"dev", "animals", "cats">>
TmpDs == <<"local", "local", "session_tmp">>
LstDs == <<"local", "local", "lst__s3">>

\* Datasets in the order the catalog lists them.
KeyOrder == <<Cats, TmpDs, DevCats, LstDs>>
Keys == {KeyOrder[i] : i \in 1..Len(KeyOrder)}

\* The projects that exist, as <<namespace, project>>.
Projects == {<<"local", "local">>, <<"dev", "animals">>}

VersionPool ==
  <<Semver(1, 2, 0), Semver(1, 10, 0), Semver(2, 0, 0), Semver(1, 0, 0),
    Semver(3, 0, 0), Semver(2, 1, 0)>>

InitCatalog ==
  [k \in Keys |->
     IF k = Cats THEN {VersionPool[i] : i \in 1..NumVersions}
     ELSE {Semver(1, 0, 0)}]

InitStudio == [k \in Keys |-> IF k = DevCats THEN {Semver(1, 0, 0)} ELSE {}]

\* Attributes of each dataset, as token strings.
DsAttrs(k) ==
  IF k = Cats THEN <<<<"loc", "=", "US">>, <<"NLP">>>>
  ELSE IF k = DevCats THEN <<<<"loc">>>>
  ELSE IF k = TmpDs THEN <<<<"loc", "=", "EU">>, <<"NLP">>>>
  ELSE <<>>

\* Session.is_temp_dataset: datasets a session created for its own use.
IsTemp(k) == k = TmpDs

\* is_listing_dataset: datasets that hold a storage listing.
IsListing(k) == k = LstDs

\* metastore.is_local_dataset: the namespace is owned by this installation.
IsLocalDataset(namespace_name) == namespace_name = DefaultNamespace

\* A fault of the catalog: the call `site` raises `err`.
NoFault == [site |-> "none", err |-> ""]
Fault(site, err) == [site |-> site, err |-> err]
FaultAt(fault, site) == IF fault.site = site THEN fault.err ELSE ""

\* projects.get: the project handle, or ProjectNotFoundError.
GetProject(project_name, namespace_name, fault) ==
  IF FaultAt(fault, "get_project") /= ""
  THEN [err |-> FaultAt(fault, "get_project"), project |-> <<>>]
  ELSE IF <<namespace_name, project_name>> \notin Projects
  THEN [err |-> "ProjectNotFoundError", project |-> <<>>]
  ELSE [err |-> "", project |-> <<namespace_name, project_name>>]

\* catalog.get_dataset: the dataset record (its key and versions), or
\* DatasetNotFoundError.
GetDataset(cat, name, project, fault) ==
  LET k == <<project[1], project[2], name>>
  IN IF FaultAt(fault, "get_dataset") /= ""
     THEN [err |-> FaultAt(fault, "get_dataset"), key |-> k, versions |-> {}]
     ELSE IF k \notin Keys \/ cat[k] = {}
     THEN [err |-> "DatasetNotFoundError", key |-> k, versions |-> {}]
     ELSE [err |-> "", key |-> k, versions |-> cat[k]]

\* DatasetRecord.latest_major_version: the highest version with that major
\* number, or None.
MaxOrNone(same) == IF same = {} THEN VNone ELSE VStr(SemverMax(same))

LatestMajorVersion(versions, major, fault) ==
  IF FaultAt(fault, "latest_major_version") /= ""
  THEN [err |-> FaultAt(fault, "latest_major_version"), version |-> VNone]
  ELSE [err |-> "",
        version |-> MaxOrNone({v \in versions : SemverParse(v)[1] = major})]

\* DatasetRecord.latest_version.
LatestVersion(versions) == VStr(SemverMax(versions))

\* catalog.remove_dataset: removes one version, or all of them under force.
RemoveDataset(cat, name, project, version, force, fault) ==
  LET k == <<project[1], project[2], name>>
  IN IF FaultAt(fault, "remove_dataset") /= ""
     THEN [err |-> FaultAt(fault, "remove_dataset"), cat |-> cat]
     ELSE IF k \notin Keys \/ cat[k] = {}
     THEN [err |-> "DatasetNotFoundError", cat |-> cat]
     ELSE IF ~VTruthy(version) /\ ~force
     THEN [err |-> "ValueError", cat |-> cat]
     ELSE IF VTruthy(version) /\ (version.t /= "str" \/ version.s \notin cat[k])
     THEN [err |-> "DatasetInvalidVersionError", cat |-> cat]
     ELSE IF VTruthy(version)
     THEN [err |-> "", cat |-> [cat EXCEPT ![k] = @ \ {version.s}]]
     ELSE [err |-> "", cat |-> [cat EXCEPT ![k] = {}]]

\* studio.remove_studio_dataset: the same removal, on the remote registry.
RemoveStudioDataset(stu, name, namespace_name, project_name, version, force) ==
  LET k == <<namespace_name, project_name, name>>
  IN IF k \notin Keys \/ stu[k] = {}
     THEN [err |-> "DataChainError", stu |-> stu]
     ELSE IF VTruthy(version) /\ (version.t /= "str" \/ version.s \notin stu[k])
     THEN [err |-> "DataChainError", stu |-> stu]
     ELSE IF VTruthy(version) /\ ~force
     THEN [err |-> "", stu |-> [stu EXCEPT ![k] = @ \ {version.s}]]
     ELSE [err |-> "", stu |-> [stu EXCEPT ![k] = {}]]


\* The version a lookup of `version` in the version set S answers with: the
\* version itself when S holds it, the latest one when none is asked for.
Lookup(S, version) ==
  IF S = {} THEN VNone
  ELSE IF version = VNone THEN LatestVersion(S)
  ELSE IF version.t = "str" /\ version.s \in S THEN version
  ELSE VNone

VersionsOf(src, k) == IF k \in Keys THEN src[k] ELSE {}

\* The query object read_dataset builds.
Query(k, version, fallback_to_studio) ==
  [built |-> TRUE, key |-> k, version |-> version,
   fallback_to_studio |-> fallback_to_studio]

NoQuery == [built |-> FALSE, key |-> <<>>, version |-> VNone,
            fallback_to_studio |-> FALSE]

\* DatasetQuery, given what the local catalog (found) and the remote registry
\* (remote) answer for the version.
QueryOutcome(cat, k, q, found, remote, missing) ==
  IF found /= VNone
  THEN [err |-> "", query |-> q, cat |-> cat, calls |-> <<"DatasetQuery">>]
  ELSE IF ~q.fallback_to_studio
  THEN [err |-> missing, query |-> q, cat |-> cat, calls |-> <<"DatasetQuery">>]
  ELSE IF remote /= VNone
  THEN [err |-> "", query |-> q, cat |-> [cat EXCEPT ![k] = @ \cup {remote.s}],
        calls |-> <<"DatasetQuery", "studio_fallback">>]
  ELSE [err |-> missing, query |-> q, cat |-> cat,
        calls |-> <<"DatasetQuery", "studio_fallback">>]

\* DatasetQuery: finds the dataset version in the local catalog and, when it is
\* absent there and fallback_to_studio is set, pulls it from the remote registry.
DatasetQuery(cat, stu, k, version, fallback_to_studio) ==
  QueryOutcome(cat, k, Query(k, version, fallback_to_studio),
               Lookup(VersionsOf(cat, k), version),
               Lookup(VersionsOf(stu, k), version),
               IF VersionsOf(cat, k) = {} THEN "DatasetNotFoundError"
               ELSE "DatasetVersionNotFoundError")

\* The parts of a dotted name, last three: namespace, project, name.
NameParts(split, n) ==
  <<IF n > 2 THEN Word(split[n - 2]) ELSE None,
    IF n > 1 THEN Word(split[n - 1]) ELSE None,
    Word(split[n])>>

\* parse_dataset_name: the dotted name split into namespace, project and name.
parse_dataset_name(name) == NameParts(Split(name, "."), Len(Split(name, ".")))

\* ---------------------------------------------------------- read_dataset

\* read_dataset, the defaults applied to the parsed name p.
ReadDefaults(p, namespace, project) ==
  <<Or(Or(p[1], namespace), DefaultNamespace),
    Or(Or(p[2], project), DefaultProject),
    p[3]>>

\* read_dataset, the identifier: <<namespace_name, project_name, name>>.
ReadResolve(name, namespace, project) ==
  ReadDefaults(parse_dataset_name(name), namespace, project)

\* The exception classes `except ValueError` catches.
IsValueError(err) == err = "ValueError"

Raised(err, version, calls) == [err |-> err, version |-> version, calls |-> calls]

\* A faulty variant of MajorFound: the test `if not latest_major` is missing.
MajorFoundUnchecked(version, l) ==
  IF l.err /= ""
  THEN Raised(l.err, version,
              <<"get_project", "get_dataset", "latest_major_version">>)
  ELSE Raised("", l.version,
              <<"get_project", "get_dataset", "latest_major_version">>)

\* read_dataset, after latest_major_version answered l.
MajorFound(version, l) ==
  IF l.err /= ""
  THEN Raised(l.err, version,
              <<"get_project", "get_dataset", "latest_major_version">>)
  ELSE IF ~VTruthy(l.version)
  THEN Raised("DatasetVersionNotFoundError", version,
              <<"get_project", "get_dataset", "latest_major_version">>)
  ELSE Raised("", l.version,
              <<"get_project", "get_dataset", "latest_major_version">>)

\* read_dataset, after get_dataset answered d.
MajorOfDataset(version, major, d, fault) ==
  IF d.err /= ""
  THEN Raised(d.err, version, <<"get_project", "get_dataset">>)
  ELSE MajorFound(version, LatestMajorVersion(d.versions, major, fault))

\* A faulty variant of MajorInProject: ProjectNotFoundError is not caught.
MajorInProjectUncaught(cat, id, version, major, p, fault) ==
  IF p.err /= ""
  THEN Raised(p.err, version, <<"get_project">>)
  ELSE MajorOfDataset(version, major, GetDataset(cat, id[3], p.project, fault),
                      fault)

\* read_dataset, after get_project answered p.
MajorInProject(cat, id, version, major, p, fault) ==
  IF p.err = "ProjectNotFoundError"
  THEN Raised("DatasetNotFoundError", version, <<"get_project">>)
  ELSE IF p.err /= ""
  THEN Raised(p.err, version, <<"get_project">>)
  ELSE MajorOfDataset(version, major, GetDataset(cat, id[3], p.project, fault),
                      fault)

\* A faulty variant of MajorOfInt: the project is looked up even when
\* int(version) raised.
MajorOfIntUnchecked(cat, id, version, major, fault) ==
  MajorInProject(cat, id, version, major.n, GetProject(id[2], id[1], fault),
                 fault)

\* read_dataset, after int(version) answered major.
MajorOfInt(cat, id, version, major, fault) ==
  IF major.err /= ""
  THEN Raised(major.err, version, <<>>)
  ELSE MajorInProject(cat, id, version, major.n,
                      GetProject(id[2], id[1], fault), fault)

\* read_dataset, the body of the try block: the integer as a major version.
ResolveMajor(cat, id, version, fault) ==
  MajorOfInt(cat, id, version, IntOf(version), fault)

\* read_dataset, `except ValueError: pass` around the outcome r of the try block.
ExceptValueError(version, r) ==
  IF IsValueError(r.err) THEN Raised("", version, r.calls) ELSE r

\* read_dataset, the version handed to the query.
ResolveVersion(cat, id, version, fault) ==
  IF version = VNone
  THEN Raised("", version, <<>>)
  ELSE ExceptValueError(version, ResolveMajor(cat, id, version, fault))

ReadResult(id, err, query, calls, cat) ==
  [resolved |-> id, err |-> err, query |-> query, calls |-> calls, cat |-> cat]

\* read_dataset, after the query was built with outcome q.
ReadQueried(id, v, q) == ReadResult(id, q.err, q.query, v.calls \o q.calls, q.cat)

\* read_dataset, after the version was resolved with outcome v.
ReadVersioned(cat, stu, a, id, v) ==
  IF v.err /= ""
  THEN ReadResult(id, v.err, NoQuery, v.calls, cat)
  ELSE ReadQueried(id, v, DatasetQuery(cat, stu, id, v.version,
                                       a.fallback_to_studio))

\* read_dataset, after the identifier was resolved to id.
ReadIdentified(cat, stu, a, id) ==
  ReadVersioned(cat, stu, a, id, ResolveVersion(cat, id, a.version, a.fault))

\* read_dataset as a whole: what it raises, the query it builds, the calls it
\* makes and the catalog it leaves.
ReadDataset(cat, stu, a) ==
  ReadIdentified(cat, stu, a, ReadResolve(a.name, a.namespace, a.project))

\* -------------------------------------------------------- delete_dataset

\* A removal request: whether it was sent, and the version and force it carries.
NoRequest == [sent |-> FALSE, version |-> VNone, force |-> FALSE]
Request(version, force) == [sent |-> TRUE, version |-> version, force |-> force]

\* A faulty variant of DeleteDefaults: the arguments win over the qualifiers.
DeleteDefaultsArgsFirst(p, namespace, project) ==
  <<Or(Or(namespace, p[1]), DefaultNamespace),
    Or(Or(project, p[2]), DefaultProject),
    p[3]>>

\* delete_dataset, the defaults applied to the parsed name p.
DeleteDefaults(p, namespace, project) ==
  <<Or(Or(p[1], namespace), DefaultNamespace),
    Or(Or(p[2], project), DefaultProject),
    p[3]>>

\* delete_dataset, the identifier: <<namespace_name, project_name, name>>.
DeleteResolve(name, namespace, project) ==
  DeleteDefaults(parse_dataset_name(name), namespace, project)

\* delete_dataset: the removal goes to the remote registry.
GoesToStudio(namespace_name, to_studio) ==
  ~IsLocalDataset(namespace_name) /\ to_studio

DeleteResult(id, err, calls, cat, stu, removeReq, studioReq) ==
  [resolved |-> id, err |-> err, calls |-> calls, cat |-> cat, stu |-> stu,
   removeReq |-> removeReq, studioReq |-> studioReq]

\* min() of a non-empty set of version strings.
SemverMin(S) == CHOOSE v \in S : \A w \in S : w = v \/ SemverLess(v, w)

\* A faulty variant of LatestOfDataset: the earliest version is taken.
EarliestOfDataset(d) ==
  IF d.err /= ""
  THEN Raised(d.err, VNone, <<"get_dataset">>)
  ELSE Raised("", VStr(SemverMin(d.versions)), <<"get_dataset">>)

\* delete_dataset, `catalog.get_dataset(name, ds_project).latest_version`.
LatestOfDataset(d) ==
  IF d.err /= ""
  THEN Raised(d.err, VNone, <<"get_dataset">>)
  ELSE Raised("", LatestVersion(d.versions), <<"get_dataset">>)

\* A faulty variant of RemovalVersion: force does not clear the version.
RemovalVersionKept(cat, id, project, version, force, fault) ==
  IF VTruthy(version)
  THEN Raised("", version, <<>>)
  ELSE LatestOfDataset(GetDataset(cat, id[3], project, fault))

\* delete_dataset, the version asked of catalog.remove_dataset.
RemovalVersion(cat, id, project, version, force, fault) ==
  IF ~force
  THEN IF VTruthy(version)
       THEN Raised("", version, <<>>)
       ELSE LatestOfDataset(GetDataset(cat, id[3], project, fault))
  ELSE Raised("", VNone, <<>>)

\* delete_dataset, after catalog.remove_dataset answered r.
Removed(stu, id, a, v, r) ==
  DeleteResult(id, r.err, <<"get_project">> \o v.calls \o <<"remove_dataset">>,
               r.cat, stu, Request(v.version, a.force), NoRequest)

\* delete_dataset, after the version to remove was settled with outcome v.
RemoveVersion(cat, stu, id, a, project, v) ==
  IF v.err /= ""
  THEN DeleteResult(id, v.err, <<"get_project">> \o v.calls, cat, stu,
                    NoRequest, NoRequest)
  ELSE Removed(stu, id, a, v,
               RemoveDataset(cat, id[3], project, v.version, a.force, a.fault))

\* delete_dataset, after get_project answered p.
DeleteInProject(cat, stu, id, a, p) ==
  IF p.err = "ProjectNotFoundError"
  THEN DeleteResult(id, "DatasetNotFoundError", <<"get_project">>, cat, stu,
                    NoRequest, NoRequest)
  ELSE IF p.err /= ""
  THEN DeleteResult(id, p.err, <<"get_project">>, cat, stu, NoRequest, NoRequest)
  ELSE RemoveVersion(cat, stu, id, a, p.project,
                     RemovalVersion(cat, id, p.project, a.version, a.force,
                                    a.fault))

\* delete_dataset, after remove_studio_dataset answered s.
DeleteInStudio(cat, id, a, s) ==
  DeleteResult(id, s.err, <<"remove_studio_dataset">>, cat, s.stu, NoRequest,
               Request(a.version, a.force))

\* delete_dataset, after the identifier was resolved to id.
DeleteIdentified(cat, stu, a, id) ==
  IF GoesToStudio(id[1], a.studio)
  THEN DeleteInStudio(cat, id, a,
                      RemoveStudioDataset(stu, id[3], id[1], id[2], a.version,
                                          a.force))
  ELSE DeleteInProject(cat, stu, id, a, GetProject(id[2], id[1], a.fault))

\* delete_dataset as a whole.
DeleteDataset(cat, stu, a) ==
  DeleteIdentified(cat, stu, a, DeleteResolve(a.name, a.namespace, a.project))

\* --------------------------------------------------------------- datasets

Append1(l, m) == l \o <<m>>

\* A set of version strings as a sequence, lowest first.
RECURSIVE SortedVersions(_)
SortedRest(S, m) == Append1(SortedVersions(S \ {m}), m)
SortedVersions(S) == IF S = {} THEN <<>> ELSE SortedRest(S, SemverMax(S))

\* DatasetInfo.from_models: the record datasets() works with.
DatasetInfo(k, v) ==
  [key |-> k, version |-> v, is_temp |-> IsTemp(k), attrs |-> DsAttrs(k)]

InfosOf(k, vs) == [j \in 1..Len(vs) |-> DatasetInfo(k, vs[j])]

Listed(src, include_listing, k) ==
  IF include_listing \/ ~IsListing(k)
  THEN InfosOf(k, SortedVersions(src[k])) ELSE <<>>

RECURSIVE ListFrom(_, _, _)
ListFrom(src, include_listing, i) ==
  IF i > Len(KeyOrder) THEN <<>>
  ELSE Listed(src, include_listing, KeyOrder[i])
       \o ListFrom(src, include_listing, i + 1)

\* catalog.list_datasets_versions: every version of every dataset, from the
\* remote registry when `from_studio`, else from the local catalog.
ListDatasetsVersions(cat, stu, include_listing, from_studio) ==
  ListFrom(IF from_studio THEN stu ELSE cat, include_listing, 1)

\* The attribute with parts a matches the predicate with parts s (name, value).
AttrMatches(a, s) ==
  \/ Word(s[2]) = "*" /\ Word(a[1]) = Word(s[1])
  \/ Len(a) = 2 /\ Word(a[1]) = Word(s[1]) /\ Word(a[2]) = Word(s[2])

HasAttrParts(d, attr, s) ==
  IF Len(s) = 1
  THEN \E i \in 1..Len(d.attrs) : d.attrs[i] = attr
  ELSE \E i \in 1..Len(d.attrs) : AttrMatches(Split(d.attrs[i], "="), s)

\* DatasetInfo.has_attr: `name` matches an attribute equal to it, `name=value`
\* an attribute with that name and value, `name=*` any attribute of that name.
HasAttr(d, attr) == HasAttrParts(d, attr, Split(attr, "="))

\* A faulty variant of DropTemp: the temporary datasets stay.
KeepTemp(values) == values

\* datasets: the temporary datasets are dropped.
DropTemp(values) == SelectSeq(values, LAMBDA d : ~d.is_temp)

\* datasets: one pass of the filter per attribute.
RECURSIVE KeepAttrs(_, _)
KeepAttrs(values, attrs) ==
  IF attrs = <<>> THEN values
  ELSE KeepAttrs(SelectSeq(values, LAMBDA d : HasAttr(d, Head(attrs))),
                 Tail(attrs))

\* An Optional[list[str]]: None, or a list.
NoAttrs == [some |-> FALSE, items |-> <<>>]
AttrList(items) == [some |-> TRUE, items |-> items]

\* datasets: `if attrs:` and the loop under it.
FilterAttrs(values, attrs) ==
  IF attrs.some /\ attrs.items /= <<>> THEN KeepAttrs(values, attrs.items)
  ELSE values

\* datasets as a whole: the records of the chain it returns and their layout.
Datasets(cat, stu, a) ==
  [values |-> FilterAttrs(DropTemp(ListDatasetsVersions(cat, stu,
                                                        a.include_listing,
                                                        a.studio)),
                          a.attrs),
   layout |-> IF Truthy(a.column) THEN "column" ELSE "flat"]

\* ----------------------------------------------------------------- inputs

NameCats == <<"cats">>
NameProjCats == <<"animals", ".", "cats">>
NameDevCats == <<"dev", ".", "animals", ".", "cats">>
NameLocalCats == <<"local", ".", "local", ".", "cats">>
NameNoNsCats == <<".", "animals", ".", "cats">>

\* Names, namespace and project arguments that exercise the identifier.
IdNames == {NameCats, NameProjCats, NameLocalCats, NameNoNsCats}
IdNamespaces == {None, "dev", ""}
IdProjects == {None, "animals"}

\* Names that reach the two datasets called cats with no other argument.
DsNames == {NameCats, NameDevCats}

\* Version strings: those of the pool that cats starts with, and the next one.
PoolVersions == {VStr(VersionPool[i]) : i \in 1..(NumVersions + 1)}

MajorArgs == {VInt(m) : m \in 1..MaxMajorArg}

\* "1", a version string that is a number.
NumericStr == VStr(StrOfNat(1))

ErrorKinds == {"ValueError", "DataChainError"}

ReadFaults ==
  {Fault(site, err) :
     site \in {"get_project", "get_dataset", "latest_major_version"},
     err \in ErrorKinds}

DeleteFaults ==
  {Fault(site, err) :
     site \in {"get_project", "get_dataset", "remove_dataset"},
     err \in ErrorKinds}

ReadArgs(names, namespaces, projects, versions, fallbacks, faults) ==
  [name : names, namespace : namespaces, project : projects, version : versions,
   fallback_to_studio : fallbacks, fault : faults]

ReadInputs ==
  ReadArgs(IdNames, IdNamespaces, IdProjects,
           {VNone, VInt(1), VStr(VersionPool[1])}, {TRUE}, {NoFault})
  \cup ReadArgs(DsNames, {None}, {None},
                {VNone, NumericStr} \cup MajorArgs \cup PoolVersions,
                BOOLEAN, {NoFault})
  \cup ReadArgs({NameCats}, {None}, {None}, {VInt(1), VStr(VersionPool[1])},
                {TRUE}, ReadFaults)

\* The reads that exercise the identifier, and those that only pull a version.
IdReads ==
  ReadArgs(IdNames, IdNamespaces, IdProjects, {VNone, VInt(1)}, {TRUE}, {NoFault})

CatalogReads ==
  ReadArgs({NameDevCats}, {None}, {None}, {VNone}, {TRUE}, {NoFault})

DeleteArgs(names, namespaces, projects, versions, forces, studios, faults) ==
  [name : names, namespace : namespaces, project : projects, version : versions,
   force : forces, studio : studios, fault : faults]

DeleteInputs ==
  DeleteArgs(IdNames, IdNamespaces, IdProjects, {VNone}, {FALSE}, {FALSE},
             {NoFault})
  \cup DeleteArgs(DsNames, {None}, {None}, {VNone} \cup PoolVersions,
                  BOOLEAN, BOOLEAN, {NoFault})
  \cup DeleteArgs({NameCats}, {None}, {None}, {VNone, VStr(<<>>)},
                  BOOLEAN, {FALSE}, DeleteFaults)

\* The removals of one version, which take the catalog to all its states.
CatalogDeletes ==
  DeleteArgs(DsNames, {None}, {None}, PoolVersions, {FALSE}, BOOLEAN, {NoFault})

AttrPool == {<<"loc", "=", "*">>, <<"loc", "=", "US">>, <<"NLP">>}

\* The lists over AttrPool of at most n items.
RECURSIVE AttrLists(_)
AttrLists(n) ==
  IF n = 0 THEN {<<>>}
  ELSE AttrLists(n - 1)
       \cup {<<a>> \o l : a \in AttrPool, l \in AttrLists(n - 1)}

DatasetsArgs(columns, listings, studios, attrs) ==
  [column : columns, include_listing : listings, studio : studios, attrs : attrs]

DatasetsInputs ==
  DatasetsArgs({None}, {FALSE}, {FALSE},
               {NoAttrs} \cup {AttrList(l) : l \in AttrLists(MaxAttrs)})
  \cup DatasetsArgs({None, "dataset"}, BOOLEAN, BOOLEAN,
                    {NoAttrs, AttrList(<<<<"loc", "=", "*">>>>)})

\* ------------------------------------------------------------ the program

\* The record of the last call: its arguments, the catalog it started from and
\* everything it did.
NoCall ==
  [op |-> "none", args |-> <<>>, before |-> InitCatalog, resolved |-> <<>>,
   err |-> "", query |-> NoQuery, calls |-> <<>>, removeReq |-> NoRequest,
   studioReq |-> NoRequest, values |-> <<>>, layout |-> ""]

Init ==
  /\ catalog = InitCatalog
  /\ studio = InitStudio
  /\ last = NoCall

\* The state after read_dataset(a) answered r.
ReadDone(a, r) ==
  /\ catalog' = r.cat
  /\ studio' = studio
  /\ last' = [NoCall EXCEPT !.op = "read_dataset", !.args = a,
                            !.before = catalog, !.resolved = r.resolved,
                            !.err = r.err, !.query = r.query, !.calls = r.calls]

ReadDatasetCall(inputs) ==
  \E a \in inputs : ReadDone(a, ReadDataset(catalog, studio, a))

\* The state after delete_dataset(a) answered r.
DeleteDone(a, r) ==
  /\ catalog' = r.cat
  /\ studio' = r.stu
  /\ last' = [NoCall EXCEPT !.op = "delete_dataset", !.args = a,
                            !.before = catalog, !.resolved = r.resolved,
                            !.err = r.err, !.calls = r.calls,
                            !.removeReq = r.removeReq,
                            !.studioReq = r.studioReq]

DeleteDatasetCall(inputs) ==
  \E a \in inputs : DeleteDone(a, DeleteDataset(catalog, studio, a))

\* The state after datasets(a) answered r.
DatasetsDone(a, r) ==
  /\ UNCHANGED <<catalog, studio>>
  /\ last' = [NoCall EXCEPT !.op = "datasets", !.args = a, !.before = catalog,
                            !.values = r.values, !.layout = r.layout]

DatasetsCall(inputs) ==
  \E a \in inputs : DatasetsDone(a, Datasets(catalog, studio, a))

\* The three entry points, called in any order with any of the inputs.
Next ==
  \/ ReadDatasetCall(ReadInputs)
  \/ DeleteDatasetCall(DeleteInputs)
  \/ DatasetsCall(DatasetsInputs)

Spec == Init /\ [][Next]_vars

\* read_dataset with all its inputs, between removals that vary the catalog.
NextRead ==
  \/ ReadDatasetCall(ReadInputs)
  \/ DeleteDatasetCall(CatalogDeletes)

SpecRead == Init /\ [][NextRead]_vars

\* delete_dataset with all its inputs, between reads that exercise the
\* identifier and pull versions back from the remote registry.
NextDelete ==
  \/ DeleteDatasetCall(DeleteInputs)
  \/ ReadDatasetCall(IdReads)

SpecDelete == Init /\ [][NextDelete]_vars

\* datasets with all its inputs, between calls that vary the catalog.
NextList ==
  \/ DatasetsCall(DatasetsInputs)
  \/ DeleteDatasetCall(CatalogDeletes)
  \/ ReadDatasetCall(CatalogReads)

SpecList == Init /\ [][NextList]_vars

\* ----------------------------------------------------------------- claims

IsRead == last.op = "read_dataset"
IsDelete == last.op = "delete_dataset"
IsList == last.op = "datasets"

Called(fn) == \E i \in 1..Len(last.calls) : last.calls[i] = fn

\* The versions the dataset the call names had when the call started.
VersionsBefore == VersionsOf(last.before, last.resolved)

\* The call named a dataset of an existing project that had a version.
DatasetExisted ==
  /\ <<last.resolved[1], last.resolved[2]>> \in Projects
  /\ VersionsBefore /= {}

\* The versions of the named dataset whose major number is m.
WithMajor(m) == {v \in VersionsBefore : SemverParse(v)[1] = m}

\* C1: read_dataset with an integer version m (or a string that is an integer),
\* on a dataset that resolves and with no injected fault, hands the query the
\* greatest version whose major number is m; when no version has major m it
\* raises DatasetVersionNotFoundError and builds no query.
C1_MajorResolvesToLatest ==
  (/\ IsRead
   /\ last.args.fault = NoFault
   /\ last.args.version /= VNone
   /\ IntOf(last.args.version).err = ""
   /\ DatasetExisted)
  => IF WithMajor(IntOf(last.args.version).n) = {}
     THEN last.err = "DatasetVersionNotFoundError" /\ ~last.query.built
     ELSE /\ last.query.built
          /\ last.query.version.t = "str"
          /\ last.query.version.s \in WithMajor(IntOf(last.args.version).n)
          /\ \A w \in WithMajor(IntOf(last.args.version).n) :
               ~SemverLess(last.query.version.s, w)

\* C1 witness: version=1 was resolved to 1.10.0 although 1.2.0 exists too.
C1_Witness ==
  /\ IsRead
  /\ last.args.version = VInt(1)
  /\ Semver(1, 2, 0) \in VersionsBefore
  /\ last.query.built
  /\ last.query.version = VStr(Semver(1, 10, 0))

\* C2: delete_dataset with force set, handled locally on an existing dataset,
\* asks the catalog for version=None and force=True whatever version was given,
\* and leaves the dataset with no version.
C2_ForceRemovesAllVersions ==
  (/\ IsDelete
   /\ last.args.force
   /\ last.args.fault = NoFault
   /\ ~last.studioReq.sent
   /\ DatasetExisted)
  => /\ last.removeReq = Request(VNone, TRUE)
     /\ last.err = ""
     /\ catalog[last.resolved] = {}

\* C2 witness: a forced removal that named one version removed several.
C2_Witness ==
  /\ IsDelete
  /\ last.args.force
  /\ last.args.version.t = "str"
  /\ last.args.version.s \in VersionsBefore
  /\ Cardinality(VersionsBefore) > 1
  /\ last.removeReq.sent
  /\ catalog[last.resolved] = {}

\* C3: when get_project finds no project, read_dataset (resolving an integer
\* version) and delete_dataset raise DatasetNotFoundError, make no further
\* call, build no query, send no removal and leave the catalog as it was.
C3_ProjectNotFoundIsDatasetNotFound ==
  (/\ IsRead \/ IsDelete
   /\ Called("get_project")
   /\ FaultAt(last.args.fault, "get_project") = ""
   /\ <<last.resolved[1], last.resolved[2]>> \notin Projects)
  => /\ last.err = "DatasetNotFoundError"
     /\ last.calls = <<"get_project">>
     /\ ~last.query.built
     /\ ~last.removeReq.sent
     /\ ~last.studioReq.sent
     /\ catalog = last.before

\* C3 witness: read_dataset with an integer version in a project that does
\* not exist.
C3_Witness ==
  /\ IsRead
  /\ last.args.version = VInt(1)
  /\ <<last.resolved[1], last.resolved[2]>> \notin Projects
  /\ last.err = "DatasetNotFoundError"

\* C4: an error the catalog raises (other than project-not-found) ends the
\* call with that very error, and read_dataset builds no query after it.
C4_CatalogErrorsPropagate ==
  (/\ IsRead \/ IsDelete
   /\ last.args.fault /= NoFault
   /\ Called(last.args.fault.site))
  => /\ last.err = last.args.fault.err
     /\ ~last.query.built

\* The qualifier when the name has one, else the argument when it is set,
\* else the default.
Pick(qualifier, argument, default) ==
  IF qualifier \notin {None, ""} THEN qualifier
  ELSE IF argument \notin {None, ""} THEN argument
  ELSE default

\* C5: read_dataset and delete_dataset resolve (name, namespace, project) to
\* the same triple: each of namespace and project is the qualifier of the
\* name, else the argument, else the catalog default; a name a.b.c gives
\* namespace a, project b and name c.
C5_IdentifierResolved ==
  (IsRead \/ IsDelete)
  => /\ last.resolved =
          <<Pick(parse_dataset_name(last.args.name)[1], last.args.namespace,
                 DefaultNamespace),
            Pick(parse_dataset_name(last.args.name)[2], last.args.project,
                 DefaultProject),
            parse_dataset_name(last.args.name)[3]>>
     /\ (/\ Len(last.args.name) = 5
         /\ last.args.name[2] = "."
         /\ last.args.name[4] = ".")
        => /\ last.resolved[1] = Pick(last.args.name[1], last.args.namespace,
                                      DefaultNamespace)
           /\ last.resolved[2] = last.args.name[3]
           /\ last.resolved[3] = last.args.name[5]

\* C5 witness: delete_dataset("local.local.cats", namespace="dev",
\* project="animals") resolved to the qualifiers of the name.
C5_Witness ==
  /\ IsDelete
  /\ last.args.name = NameLocalCats
  /\ last.args.namespace = "dev"
  /\ last.args.project = "animals"
  /\ last.resolved = <<"local", "local", "cats">>

\* C6: with fallback_to_studio set, read_dataset raises a not-found error
\* only after it tried the remote registry, whatever the form of the version.
C6_FallbackBeforeNotFound ==
  (/\ IsRead
   /\ last.args.fault = NoFault
   /\ last.args.fallback_to_studio
   /\ last.err \in {"DatasetNotFoundError", "DatasetVersionNotFoundError"})
  => Called("studio_fallback")

\* C7: delete_dataset with studio set removes from the remote registry only,
\* and with studio unset from the local catalog only.
C7_StudioDeleteIsRemoteOnly ==
  IsDelete
  => IF last.args.studio
     THEN /\ ~Called("remove_dataset")
          /\ catalog = last.before
     ELSE ~Called("remove_studio_dataset")

\* The record has an attribute called name, with or without a value.
HasAttrNamed(d, name) == \E i \in 1..Len(d.attrs) : d.attrs[i][1] = name

\* The record is one datasets() must return for these arguments.
Wanted(d, a) ==
  /\ ~d.is_temp
  /\ a.attrs.some => \A i \in 1..Len(a.attrs.items) : HasAttr(d, a.attrs.items[i])

\* C8: datasets() returns, in catalog order, exactly the listed records that
\* are not temporary and satisfy every predicate of attrs; with "loc=*" among
\* them every returned record has an attribute loc.
C8_DatasetsFiltered ==
  IsList
  => /\ last.values =
          SelectSeq(ListDatasetsVersions(last.before, studio,
                                         last.args.include_listing,
                                         last.args.studio),
                    LAMBDA d : Wanted(d, last.args))
     /\ \A i \in 1..Len(last.values) : ~last.values[i].is_temp
     /\ (/\ last.args.attrs.some
         /\ \E j \in 1..Len(last.args.attrs.items) :
              last.args.attrs.items[j] = <<"loc", "=", "*">>)
        => \A i \in 1..Len(last.values) : HasAttrNamed(last.values[i], "loc")

\* C8 witness: datasets(attrs=["loc=*"]) returned records and left out the
\* temporary dataset, which has a loc attribute too.
C8_Witness ==
  /\ IsList
  /\ last.args.attrs = AttrList(<<<<"loc", "=", "*">>>>)
  /\ ~last.args.studio
  /\ last.values /= <<>>
  /\ last.before[TmpDs] /= {}
  /\ HasAttrNamed(DatasetInfo(TmpDs, Semver(1, 0, 0)), "loc")

\* C9: a version string that is not a number reaches the query unchanged, and
\* read_dataset looks up no project, dataset or major version for it.
C9_SemverPassesThrough ==
  (/\ IsRead
   /\ last.args.version.t = "str"
   /\ \E i \in 1..Len(last.args.version.s) : last.args.version.s[i] = ".")
  => /\ last.query.built
     /\ last.query.version = last.args.version
     /\ ~Called("get_project")
     /\ ~Called("get_dataset")
     /\ ~Called("latest_major_version")

\* C9 witness: a semver string given for a project that does not exist still
\* reached the query.
C9_Witness ==
  /\ IsRead
  /\ last.args.version = VStr(Semver(1, 2, 0))
  /\ <<last.resolved[1], last.resolved[2]>> \notin Projects
  /\ last.query.built
  /\ last.query.version = VStr(Semver(1, 2, 0))

\* The version a removal without force is about: the one given, else the
\* latest the dataset had.
Target ==
  IF VTruthy(last.args.version) THEN last.args.version.s
  ELSE CHOOSE v \in VersionsBefore : \A w \in VersionsBefore : ~SemverLess(v, w)

\* C10: delete_dataset without force, handled locally, removes exactly the
\* version given, or the latest version when none is given, and nothing else;
\* a call that raises removes nothing.
C10_RemovesOneVersion ==
  (/\ IsDelete
   /\ ~last.args.force
   /\ last.args.fault = NoFault
   /\ ~last.studioReq.sent)
  => IF last.err = ""
     THEN /\ Target \in VersionsBefore
          /\ catalog = [last.before EXCEPT ![last.resolved] = @ \ {Target}]
     ELSE catalog = last.before

\* C10 witness: a removal with no version took the latest of several versions
\* and left the others.
C10_Witness ==
  /\ IsDelete
  /\ ~last.args.force
  /\ last.args.version = VNone
  /\ last.err = ""
  /\ Semver(2, 0, 0) \in VersionsBefore
  /\ Semver(2, 0, 0) \notin catalog[last.resolved]
  /\ Semver(1, 2, 0) \in catalog[last.resolved]
  /\ Semver(1, 10, 0) \in catalog[last.resolved]

====
